---- MODULE Spec2Model ----
(***************************************************************************)
(* Placeholder substitution and mapping reconciliation of the anonymizer   *)
(* (src/src/anonymizer/core).  Strings are sequences of one-character      *)
(* strings, so that formatting (f-strings), slicing and splicing are       *)
(* computed character by character.  Scores are integers in units of       *)
(* 10^-5 (0.7 is 70000), so that round(score, 4) is not the identity.      *)
(***************************************************************************)
EXTENDS Integers, Sequences, FiniteSets, TLC

VARIABLES
    mapper,     \* PlaceholderMapper: _value_to_placeholder, _placeholder_to_value, _type_counters
    pc,         \* position of the running operation
    last,       \* the last mapper call: operation, argument, return value
    returned,   \* history: (entity_type, text, placeholder) returned in this session
    firstSeen,  \* history: the values in order of first lookup in this session, with their score
    text,       \* anonymize_text_with_mapping: the argument text
    entities,   \* anonymize_text_with_mapping: the argument entities
    result,     \* anonymize_text_with_mapping: the returned (text, mappings), or NoResult
    service,    \* AnonymizerService: language, selected_entities, min_confidence
    analyzer,   \* the PIIAnalyzer (the service's _analyzer): None, or language, entities, _engine
    input,      \* the document given: its suffix, its text, the engine's results on the text
    unit,       \* the last analyze / anonymize_text / anonymize_file call and what it returned
    fs,         \* the files at the paths derived from the output path
    session     \* history: PIIAnalyzers constructed, engines created, the unit before

vars == <<mapper, pc, last, returned, firstSeen, text, entities, result,
          service, analyzer, input, unit, fs, session>>

mapperHistory == <<last, returned, firstSeen>>
anonVars == <<text, entities, result>>
serviceVars == <<service, analyzer, input, unit, fs, session>>

-----------------------------------------------------------------------------
(* Bounds of the model *)

\* distinct values looked up in one mapper session
MaxValues == 3

\* characters of a source text
MaxLen == 3

\* entities passed to one anonymize_text_with_mapping call, results of one
\* detector call
MaxSpans == 2

\* characters of a document given to the service
MaxDocLen == 2

-----------------------------------------------------------------------------
(* Strings *)

Alphabet == {"a", "A"}

PERSON == <<"P", "E", "R", "S", "O", "N">>
EMAIL_ADDRESS == <<"E", "M", "A", "I", "L", "_", "A", "D", "D", "R", "E", "S", "S">>

\* config.SUPPORTED_ENTITIES, the two types the tests use
EntityTypes == {PERSON, EMAIL_ADDRESS}

Digit(d) == <<"0", "1", "2", "3", "4", "5", "6", "7", "8", "9">>[d + 1]

RECURSIVE IntToStr(_)
\* str(n) of a non-negative int, as the f-string formats the counter
IntToStr(n) == IF n < 10 THEN <<Digit(n)>> ELSE IntToStr(n \div 10) \o <<Digit(n % 10)>>

\* round(score, 4): scores carry five decimals, the nearest multiple of 10^-4
\* (no input of the model lies exactly half way)
Round4(score) == ((score + 5) \div 10) * 10

-----------------------------------------------------------------------------
(* PlaceholderMapper *)

EmptyFn == [x \in {} |-> x]

\* PlaceholderMapper.__init__
PlaceholderMapper ==
    [value_to_placeholder |-> EmptyFn,
     placeholder_to_value |-> EmptyFn,
     type_counters        |-> EmptyFn]

\* a key that forgets the entity type
_create_lookup_key_text_only(entity) == entity.text

\* f"{entity.entity_type}:{entity.text}"
_create_lookup_key(entity) == entity.entity_type \o <<":">> \o entity.text

\* one increment that bumps every counter there is
_increment_counter_all(counters, entity_type) ==
    LET c0 == IF entity_type \in DOMAIN counters
              THEN counters
              ELSE counters @@ (entity_type :> 0)
    IN  [t \in DOMAIN c0 |-> c0[t] + 1]

\* counters kept across mappers: counting goes on from where the mapper used
\* before stopped
_increment_counter_across_mappers(counters, entity_type) ==
    LET before == IF entity_type \in DOMAIN mapper.type_counters
                  THEN mapper.type_counters[entity_type]
                  ELSE 0
        c0 == IF entity_type \in DOMAIN counters
              THEN counters
              ELSE counters @@ (entity_type :> before)
    IN  [c0 EXCEPT ![entity_type] = @ + 1]

\* the counters after _increment_counter(entity_type)
_increment_counter(counters, entity_type) ==
    LET c0 == IF entity_type \in DOMAIN counters
              THEN counters
              ELSE counters @@ (entity_type :> 0)
    IN  [c0 EXCEPT ![entity_type] = @ + 1]

\* f"<{entity_type}_{count}>"
FormatPlaceholder(entity_type, count) ==
    <<"<">> \o entity_type \o <<"_">> \o IntToStr(count) \o <<">">>

\* numbering from the counter as it was before the increment
_generate_new_placeholder_zero_based(counters, entity_type) ==
    LET c1 == _increment_counter(counters, entity_type)
    IN  [counters |-> c1,
         placeholder |-> FormatPlaceholder(entity_type, c1[entity_type] - 1)]

\* _generate_new_placeholder: the new counters and the placeholder
_generate_new_placeholder(counters, entity_type) ==
    LET c1 == _increment_counter(counters, entity_type)
    IN  [counters |-> c1, placeholder |-> FormatPlaceholder(entity_type, c1[entity_type])]

\* a registration that stores the lookup key as the entry's text
_register_mapping_key_as_text(m, key, placeholder, entity) ==
    LET entry == [text |-> key,
                  entity_type |-> entity.entity_type,
                  score |-> Round4(entity.score)]
    IN  [m EXCEPT
            !.value_to_placeholder =
                [k \in DOMAIN @ \cup {key} |-> IF k = key THEN placeholder ELSE @[k]],
            !.placeholder_to_value =
                [p \in DOMAIN @ \cup {placeholder} |-> IF p = placeholder THEN entry ELSE @[p]]]

\* _register_mapping; the dict assignments overwrite an existing key
_register_mapping(m, key, placeholder, entity) ==
    LET entry == [text |-> entity.text,
                  entity_type |-> entity.entity_type,
                  score |-> Round4(entity.score)]
    IN  [m EXCEPT
            !.value_to_placeholder =
                [k \in DOMAIN @ \cup {key} |-> IF k = key THEN placeholder ELSE @[k]],
            !.placeholder_to_value =
                [p \in DOMAIN @ \cup {placeholder} |-> IF p = placeholder THEN entry ELSE @[p]]]

\* get_placeholder without the lookup of an existing key
get_placeholder_no_lookup(m, entity) ==
    LET key == _create_lookup_key(entity)
        g   == _generate_new_placeholder(m.type_counters, entity.entity_type)
        m1  == [m EXCEPT !.type_counters = g.counters]
    IN  [mapper |-> _register_mapping(m1, key, g.placeholder, entity),
         placeholder |-> g.placeholder]

\* get_placeholder that registers the entity again when the key is known
get_placeholder_re_register(m, entity) ==
    LET key == _create_lookup_key(entity)
    IN  IF key \in DOMAIN m.value_to_placeholder
        THEN [mapper |-> _register_mapping(m, key, m.value_to_placeholder[key], entity),
              placeholder |-> m.value_to_placeholder[key]]
        ELSE LET g  == _generate_new_placeholder(m.type_counters, entity.entity_type)
                 m1 == [m EXCEPT !.type_counters = g.counters]
             IN  [mapper |-> _register_mapping(m1, key, g.placeholder, entity),
                  placeholder |-> g.placeholder]

\* get_placeholder: the mapper after the call and the value returned
get_placeholder(m, entity) ==
    LET key == _create_lookup_key(entity)
    IN  IF key \in DOMAIN m.value_to_placeholder
        THEN [mapper |-> m, placeholder |-> m.value_to_placeholder[key]]
        ELSE LET g  == _generate_new_placeholder(m.type_counters, entity.entity_type)
                 m1 == [m EXCEPT !.type_counters = g.counters]
             IN  [mapper |-> _register_mapping(m1, key, g.placeholder, entity),
                  placeholder |-> g.placeholder]

\* get_mappings: dict(self._placeholder_to_value)
get_mappings(m) == m.placeholder_to_value

\* a reset that clears the two dicts and leaves the counters
reset_keeps_counters(m) ==
    [m EXCEPT !.value_to_placeholder = EmptyFn,
              !.placeholder_to_value = EmptyFn]

\* a reset that clears the entries and the counters and leaves the lookup
reset_keeps_lookup(m) ==
    [m EXCEPT !.placeholder_to_value = EmptyFn,
              !.type_counters = EmptyFn]

\* reset
reset(m) ==
    [m EXCEPT !.value_to_placeholder = EmptyFn,
              !.placeholder_to_value = EmptyFn,
              !.type_counters = EmptyFn]

-----------------------------------------------------------------------------
(* A mapper session: any sequence of get_placeholder and reset calls *)

MapperValues == {<<"a">>, <<"A">>, <<"a", "a">>}
MapperStarts == {0, 5}
MapperScores == {69996, 90004}

MapperEntities ==
    {[entity_type |-> t, text |-> x, start |-> s, end |-> s + Len(x), score |-> sc] :
        t \in EntityTypes, x \in MapperValues, s \in MapperStarts, sc \in MapperScores}

\* what the histories keep of an entity: its value and the score it came with
Seen(entity) ==
    [entity_type |-> entity.entity_type, text |-> entity.text, score |-> entity.score]

SameValue(a, b) == a.entity_type = b.entity_type /\ a.text = b.text

NoCall == [op |-> "none"]

NoResult == [text |-> <<>>, mappings |-> EmptyFn, returned |-> FALSE]

None == "None"

NoService == [language |-> None, selected_entities |-> {}, min_confidence |-> 0]

NoInput == [suffix |-> <<>>, text |-> <<>>, detected |-> <<>>]

NoUnit ==
    [op |-> "none", outcome |-> "none", text |-> <<>>, detected |-> <<>>,
     high |-> <<>>, low |-> <<>>, anonymized_text |-> <<>>, mappings |-> EmptyFn,
     entities_count |-> 0, selected |-> <<>>, excluded |-> <<>>]

\* no file at a path, and a file with its content
Absent == [exists |-> FALSE]
File(content) == [exists |-> TRUE, content |-> content]

\* no PIIAnalyzer object
NoAnalyzer == [language |-> None, selected_entities |-> {}, engine |-> None]

EmptyFs == [document |-> Absent, mapping |-> Absent, excluded |-> Absent]

\* nothing constructed, no unit yet
NoSession == [analyzers |-> 0, engines |-> 0, previous |-> NoUnit]

\* no service, no analyzer and no file: the state of the variables of the
\* service where only the mapper or the substitution runs
NoServiceYet ==
    /\ service = NoService
    /\ analyzer = NoAnalyzer
    /\ input = NoInput
    /\ unit = NoUnit
    /\ fs = EmptyFs
    /\ session = NoSession

InitMapper ==
    /\ mapper = PlaceholderMapper
    /\ pc = "mapper"
    /\ last = NoCall
    /\ returned = {}
    /\ firstSeen = <<>>
    /\ text = <<>>
    /\ entities = <<>>
    /\ result = NoResult
    /\ NoServiceYet

CallGetPlaceholder(entity) ==
    LET r    == get_placeholder(mapper, entity)
        seen == \E i \in 1..Len(firstSeen) : SameValue(firstSeen[i], entity)
    IN  /\ pc = "mapper"
        /\ seen \/ Len(firstSeen) < MaxValues
        /\ mapper' = r.mapper
        /\ last' = [op |-> "get_placeholder", entity |-> entity,
                     hit |-> seen, placeholder |-> r.placeholder]
        /\ returned' = returned \cup
              {[entity_type |-> entity.entity_type, text |-> entity.text,
                placeholder |-> r.placeholder]}
        /\ firstSeen' =
              IF seen
              THEN firstSeen
              ELSE Append(firstSeen, Seen(entity))
        /\ pc' = pc
        /\ UNCHANGED <<anonVars, serviceVars>>

CallReset ==
    /\ pc = "mapper"
    /\ mapper' = reset(mapper)
    /\ last' = [op |-> "reset", cleared |-> Cardinality(DOMAIN mapper.placeholder_to_value)]
    /\ returned' = {}
    /\ firstSeen' = <<>>
    /\ pc' = pc
    /\ UNCHANGED <<anonVars, serviceVars>>

NextMapper ==
    \/ \E entity \in MapperEntities : CallGetPlaceholder(entity)
    \/ CallReset

SpecMapper == InitMapper /\ [][NextMapper]_vars

-----------------------------------------------------------------------------
(* anonymize_text_with_mapping *)

\* the index a Python slice bound k stands for in a string of length n
SliceIndex(n, k) ==
    IF k < 0 THEN (IF k + n < 0 THEN 0 ELSE k + n)
    ELSE (IF k > n THEN n ELSE k)

\* s[:k]
SliceTo(s, k) == SubSeq(s, 1, SliceIndex(Len(s), k))

\* s[k:]
SliceFrom(s, k) == SubSeq(s, SliceIndex(Len(s), k) + 1, Len(s))

\* s[i:j]
Slice(s, i, j) == SubSeq(s, SliceIndex(Len(s), i) + 1, SliceIndex(Len(s), j))

\* a splice that drops one character more than the entity's range
replace_entity_in_text_one_more(t, entity, placeholder) ==
    SliceTo(t, entity.start) \o placeholder \o SliceFrom(t, entity.end + 1)

\* replace_entity_in_text: text[:entity.start] + placeholder + text[entity.end:]
replace_entity_in_text(t, entity, placeholder) ==
    SliceTo(t, entity.start) \o placeholder \o SliceFrom(t, entity.end)

RECURSIVE InsertByStartDescending(_, _)
\* e goes after every element whose start is not smaller: equal starts keep
\* the order of the input, as sorted(..., reverse=True) does
InsertByStartDescending(sorted, e) ==
    IF sorted = <<>> THEN <<e>>
    ELSE IF Head(sorted).start >= e.start
         THEN <<Head(sorted)>> \o InsertByStartDescending(Tail(sorted), e)
         ELSE <<e>> \o sorted

\* the entities in the order they were passed
sorted_entities_no_sort(es) == es

RECURSIVE InsertByStart(_, _)
InsertByStart(sorted, e) ==
    IF sorted = <<>> THEN <<e>>
    ELSE IF Head(sorted).start <= e.start
         THEN <<Head(sorted)>> \o InsertByStart(Tail(sorted), e)
         ELSE <<e>> \o sorted

RECURSIVE sorted_entities_ascending(_)
\* sorted(entities, key=lambda e: e.start): the reverse flag left out
sorted_entities_ascending(es) ==
    IF es = <<>> THEN <<>>
    ELSE InsertByStart(sorted_entities_ascending(SubSeq(es, 1, Len(es) - 1)),
                       es[Len(es)])

RECURSIVE sorted_entities(_)
\* sorted(entities, key=lambda e: e.start, reverse=True)
sorted_entities(es) ==
    IF es = <<>> THEN <<>>
    ELSE InsertByStartDescending(
             sorted_entities(SubSeq(es, 1, Len(es) - 1)), es[Len(es)])

RECURSIVE ReplaceAll(_, _, _)
\* the for loop: one get_placeholder and one splice per entity
ReplaceAll(t, sorted, m) ==
    IF sorted = <<>> THEN [text |-> t, mapper |-> m]
    ELSE LET r == get_placeholder(m, Head(sorted))
         IN  ReplaceAll(replace_entity_in_text(t, Head(sorted), r.placeholder),
                        Tail(sorted), r.mapper)

RECURSIVE DropOverlapping(_, _)
\* the spans of sorted that do not overlap a span kept before them
DropOverlapping(sorted, kept) ==
    IF sorted = <<>> THEN kept
    ELSE IF \E i \in 1..Len(kept) :
                Head(sorted).start < kept[i].end /\ kept[i].start < Head(sorted).end
         THEN DropOverlapping(Tail(sorted), kept)
         ELSE DropOverlapping(Tail(sorted), Append(kept, Head(sorted)))

\* a loop that detects a span overlapping one already replaced and skips it
anonymize_text_with_mapping_skip_overlapping(t, es, m) ==
    LET r == ReplaceAll(t, DropOverlapping(sorted_entities(es), <<>>), m)
    IN  [text |-> r.text, mappings |-> get_mappings(r.mapper), mapper |-> r.mapper]

\* a loop whose result starts as the empty string instead of the text
anonymize_text_with_mapping_from_empty(t, es, m) ==
    LET r == ReplaceAll(<<>>, sorted_entities(es), m)
    IN  [text |-> r.text, mappings |-> get_mappings(r.mapper), mapper |-> r.mapper]

\* anonymize_text_with_mapping: the returned pair and the mapper it leaves
anonymize_text_with_mapping(t, es, m) ==
    LET r == ReplaceAll(t, sorted_entities(es), m)
    IN  [text |-> r.text, mappings |-> get_mappings(r.mapper), mapper |-> r.mapper]

-----------------------------------------------------------------------------
(* One call of anonymize_text_with_mapping on a fresh mapper *)

RECURSIVE SeqsUpTo(_, _)
\* the sequences over S of length at most n
SeqsUpTo(S, n) ==
    IF n = 0 THEN {<<>>}
    ELSE LET shorter == SeqsUpTo(S, n - 1)
         IN  shorter \cup {Append(q, x) : q \in shorter, x \in S}

Texts == SeqsUpTo(Alphabet, MaxLen)

\* the (entity_type, score) pairs of the spans: a type at two scores, and a
\* second type
SpanKinds == {<<PERSON, 69996>>, <<PERSON, 90004>>, <<EMAIL_ADDRESS, 90004>>}

\* the ranges with 0 <= start < end <= len(t)
Ranges(t) == {r \in (0..Len(t)) \X (0..Len(t)) : r[1] < r[2]}

\* the spans a detector can report on t, each with the text of its range
\* (analyzer.py builds text[start:end])
SpanEntities(t) ==
    {[entity_type |-> k[1], text |-> Slice(t, r[1], r[2]),
      start |-> r[1], end |-> r[2], score |-> k[2]] :
        k \in SpanKinds, r \in Ranges(t)}

\* tests/test_mapping.py, test_replaces_entities
ExampleText ==
    <<"H", "e", "l", "l", "o", " ", "J", "o", "h", "n", ",", " ", "y", "o",
      "u", "r", " ", "e", "m", "a", "i", "l", " ", "i", "s", " ", "j", "o",
      "h", "n", "@", "t", "e", "s", "t", ".", "c", "o", "m">>

ExampleEntities ==
    <<[entity_type |-> PERSON, text |-> Slice(ExampleText, 6, 10),
       start |-> 6, end |-> 10, score |-> 90000],
      [entity_type |-> EMAIL_ADDRESS, text |-> Slice(ExampleText, 26, 39),
       start |-> 26, end |-> 39, score |-> 90000]>>

ExampleOutput ==
    <<"H", "e", "l", "l", "o", " ", "<", "P", "E", "R", "S", "O", "N", "_",
      "1", ">", ",", " ", "y", "o", "u", "r", " ", "e", "m", "a", "i", "l",
      " ", "i", "s", " ", "<", "E", "M", "A", "I", "L", "_", "A", "D", "D",
      "R", "E", "S", "S", "_", "1", ">">>

InitAnon ==
    /\ mapper = PlaceholderMapper
    /\ pc = "call"
    /\ last = NoCall
    /\ returned = {}
    /\ firstSeen = <<>>
    /\ \/ /\ text \in Texts
          /\ entities \in SeqsUpTo(SpanEntities(text), MaxSpans)
       \/ /\ text = ExampleText
          /\ entities = ExampleEntities
    /\ result = NoResult
    /\ NoServiceYet

Anonymize ==
    /\ pc = "call"
    /\ pc' = "done"
    /\ \E r \in {anonymize_text_with_mapping(text, entities, mapper)} :
          /\ mapper' = r.mapper
          /\ result' = [text |-> r.text, mappings |-> r.mappings, returned |-> TRUE]
    /\ UNCHANGED <<mapperHistory, text, entities, serviceVars>>

NextAnon == Anonymize

SpecAnon == InitAnon /\ [][NextAnon]_vars

-----------------------------------------------------------------------------
(* One call of anonymize_text_with_mapping on spans of any shape *)

\* the texts of at most MaxDocLen characters
SpanTexts == SeqsUpTo(Alphabet, MaxDocLen)

\* every pair of indices around t: start >= end, negative and beyond len(t)
\* included
AnyRanges(t) == (-1..(Len(t) + 1)) \X (-1..(Len(t) + 1))

\* PIIEntity is a plain dataclass: any start and end can be passed; the text
\* is the slice Python gives for them
AnySpans(t) ==
    {[entity_type |-> PERSON, text |-> Slice(t, r[1], r[2]),
      start |-> r[1], end |-> r[2], score |-> 90004] : r \in AnyRanges(t)}

InitMalformed ==
    /\ mapper = PlaceholderMapper
    /\ pc = "call"
    /\ last = NoCall
    /\ returned = {}
    /\ firstSeen = <<>>
    /\ text \in SpanTexts
    /\ entities \in SeqsUpTo(AnySpans(text), MaxSpans)
    /\ result = NoResult
    /\ NoServiceYet

NextMalformed == Anonymize

SpecMalformed == InitMalformed /\ [][NextMalformed]_vars

-----------------------------------------------------------------------------
(* Two calls of anonymize_text_with_mapping on the same arguments, each on a
   mapper of its own *)

InitRerun ==
    /\ mapper = PlaceholderMapper
    /\ pc = "call"
    /\ last = NoCall
    /\ returned = {}
    /\ firstSeen = <<>>
    /\ text \in SpanTexts
    /\ entities \in SeqsUpTo(SpanEntities(text), MaxSpans)
    /\ result = NoResult
    /\ NoServiceYet

\* the second run: a new PlaceholderMapper(), the same text and span list;
\* what it returns is kept in last, next to the first run's result
AnonymizeAgain ==
    /\ pc = "done"
    /\ \E r \in {anonymize_text_with_mapping(text, entities, PlaceholderMapper)} :
          /\ mapper' = r.mapper
          /\ last' = [op |-> "anonymize_text_with_mapping",
                      text |-> r.text, mappings |-> r.mappings]
    /\ pc' = "again"
    /\ UNCHANGED <<returned, firstSeen, text, entities, result, serviceVars>>

NextRerun == Anonymize \/ AnonymizeAgain

SpecRerun == InitRerun /\ [][NextRerun]_vars

-----------------------------------------------------------------------------
(* PIIAnalyzer *)

\* config.MIN_CONFIDENCE_SCORE = 0.7
MIN_CONFIDENCE_SCORE == 70000

\* config.SUPPORTED_LANGUAGES (the keys)
SUPPORTED_LANGUAGES == {"en", "es", "de", "ca"}

\* PIIAnalyzer.__init__(language, selected_entities): _validate_language raises
\* ValueError for a language that is not supported; the analyzer holds the
\* language, the entity types and no engine yet.  It has no threshold.
PIIAnalyzer(language, selected_entities) ==
    IF language \notin SUPPORTED_LANGUAGES
    THEN [raised |-> "ValueError", analyzer |-> NoAnalyzer]
    ELSE [raised |-> None,
          analyzer |-> [language |-> language,
                        selected_entities |-> selected_entities,
                        engine |-> None]]

\* _get_engine: the engine is created when there is none
_get_engine(a) == IF a.engine = None THEN [a EXCEPT !.engine = "AnalyzerEngine"] ELSE a

\* the (entity_type, score) pairs of the detector's results: scores just below
\* the default threshold, on it, and above it
DetectorKinds == {<<PERSON, 69996>>, <<PERSON, 70000>>, <<EMAIL_ADDRESS, 90004>>}

\* the RecognizerResults engine.analyze can return on t for the entity types
\* asked for
RecognizerResults(t, selected_entities) ==
    {[entity_type |-> k[1], start |-> r[1], end |-> r[2], score |-> k[2]] :
        k \in {q \in DetectorKinds : q[1] \in selected_entities}, r \in Ranges(t)}

RECURSIVE InsertByPositionBeforeTies(_, _)
\* an insertion that puts e before the elements of equal start
InsertByPositionBeforeTies(sorted, e) ==
    IF sorted = <<>> THEN <<e>>
    ELSE IF Head(sorted).start < e.start
         THEN <<Head(sorted)>> \o InsertByPositionBeforeTies(Tail(sorted), e)
         ELSE <<e>> \o sorted

RECURSIVE InsertByPosition(_, _)
\* e goes after every element whose start is not greater: sorted() is stable
InsertByPosition(sorted, e) ==
    IF sorted = <<>> THEN <<e>>
    ELSE IF Head(sorted).start <= e.start
         THEN <<Head(sorted)>> \o InsertByPosition(Tail(sorted), e)
         ELSE <<e>> \o sorted

RECURSIVE _sort_entities_by_position(_)
\* _sort_entities_by_position: sorted(entities, key=lambda e: e.start)
_sort_entities_by_position(es) ==
    IF es = <<>> THEN <<>>
    ELSE InsertByPosition(_sort_entities_by_position(SubSeq(es, 1, Len(es) - 1)), es[Len(es)])

\* the PIIEntity built for one RecognizerResult
ResultToEntity(res, t) ==
    [entity_type |-> res.entity_type,
     text |-> Slice(t, res.start, res.end),
     start |-> res.start,
     end |-> res.end,
     score |-> res.score]

\* _convert_results_to_entities
_convert_results_to_entities(results, t) ==
    _sort_entities_by_position([i \in 1..Len(results) |-> ResultToEntity(results[i], t)])

\* two filters, score > threshold and score < threshold
_split_by_confidence_two_filters(es) ==
    [high |-> SelectSeq(es, LAMBDA e : e.score > MIN_CONFIDENCE_SCORE),
     low  |-> SelectSeq(es, LAMBDA e : e.score < MIN_CONFIDENCE_SCORE)]

RECURSIVE SplitLoop(_, _, _)
\* the for loop of _split_by_confidence
SplitLoop(es, high, low) ==
    IF es = <<>> THEN [high |-> high, low |-> low]
    ELSE IF Head(es).score >= MIN_CONFIDENCE_SCORE
         THEN SplitLoop(Tail(es), Append(high, Head(es)), low)
         ELSE SplitLoop(Tail(es), high, Append(low, Head(es)))

\* _split_by_confidence: the threshold is the module constant
_split_by_confidence(es) == SplitLoop(es, <<>>, <<>>)

\* analyze, given what the engine returns on the text: the analyzer after the
\* call and the two lists
analyze(a, t, results) ==
    LET split == _split_by_confidence(_convert_results_to_entities(results, t))
    IN  [analyzer |-> _get_engine(a), high |-> split.high, low |-> split.low]

-----------------------------------------------------------------------------
(* A PIIAnalyzer used on its own, as tests/test_analyzer.py does *)

\* the texts analyzed: texts that repeat one character, and texts that end
\* in another one
AnalyzerTexts == {t \in Texts : \A i \in 1..(Len(t) - 1) : t[i] = "a"}

InitAnalyzer ==
    /\ mapper = PlaceholderMapper
    /\ pc = "analyzer"
    /\ last = NoCall
    /\ returned = {}
    /\ firstSeen = <<>>
    /\ text = <<>>
    /\ entities = <<>>
    /\ result = NoResult
    /\ service = NoService
    /\ analyzer = PIIAnalyzer("en", EntityTypes).analyzer
    /\ \E t \in AnalyzerTexts :
          \E results \in SeqsUpTo(RecognizerResults(t, EntityTypes), MaxSpans) :
              input = [suffix |-> <<>>, text |-> t, detected |-> results]
    /\ unit = NoUnit
    /\ fs = EmptyFs
    /\ session = NoSession

\* analyzer.analyze(text)
CallAnalyze ==
    LET r == analyze(analyzer, input.text, input.detected)
    IN  /\ pc = "analyzer"
        /\ analyzer' = r.analyzer
        /\ unit' = [NoUnit EXCEPT !.op = "analyze", !.outcome = "ok",
                                  !.text = input.text, !.detected = input.detected,
                                  !.high = r.high, !.low = r.low]
        /\ UNCHANGED <<mapper, pc, mapperHistory, anonVars, service, input, fs, session>>

NextAnalyzer == CallAnalyze

SpecAnalyzer == InitAnalyzer /\ [][NextAnalyzer]_vars

-----------------------------------------------------------------------------
(* AnonymizerService *)

\* config.DEFAULT_LANGUAGE and a language config.SUPPORTED_LANGUAGES lacks
ServiceLanguages == {"en", "fr"}

\* the min_confidence argument: None, 0.5, 0.9
NoArg == [given |-> FALSE, value |-> 0]
Arg(v) == [given |-> TRUE, value |-> v]
MinConfidenceArgs == {NoArg, Arg(50000), Arg(90000)}

\* AnonymizerService.__init__: the default entity types when none are given
\* (None or an empty list, here {}), the default threshold when min_confidence
\* is None, no analyzer yet
AnonymizerService(language, selected_entities, min_confidence) ==
    [language |-> language,
     selected_entities |-> IF selected_entities = {}
                           THEN EntityTypes
                           ELSE selected_entities,
     min_confidence |-> IF min_confidence.given THEN min_confidence.value
                        ELSE MIN_CONFIDENCE_SCORE]

\* _get_analyzer that builds a PIIAnalyzer at every call
_get_analyzer_always_new(svc, a) == PIIAnalyzer(svc.language, svc.selected_entities)

\* _get_analyzer: the analyzer is built once, from the service's language and
\* entity types.  The call also passes min_confidence = self.min_confidence,
\* which is no parameter of PIIAnalyzer.__init__ (analyzer.py, lines 22 to 26):
\* the analyzer is the one of analyzer.py and takes nothing from it.
_get_analyzer(svc, a) ==
    IF a = NoAnalyzer
    THEN PIIAnalyzer(svc.language, svc.selected_entities)
    ELSE [raised |-> None, analyzer |-> a]

\* anonymize_text that goes on with the mapper of the unit before
anonymize_text_shared_mapper(svc, a, t, results) ==
    LET g == _get_analyzer(svc, a)
    IN  IF g.raised # None
        THEN [raised |-> g.raised, analyzer |-> a, high |-> <<>>, low |-> <<>>,
              anonymized_text |-> <<>>, mappings |-> EmptyFn, mapper |-> mapper]
        ELSE LET r == analyze(g.analyzer, t, results)
                 m == anonymize_text_with_mapping(t, r.high, mapper)
             IN  [raised |-> None, analyzer |-> r.analyzer, high |-> r.high, low |-> r.low,
                  anonymized_text |-> m.text, mappings |-> m.mappings, mapper |-> m.mapper]

\* anonymize_text, given what the engine returns on the text: the analysis,
\* then the substitution of the accepted entities with a fresh mapper
anonymize_text(svc, a, t, results) ==
    LET g == _get_analyzer(svc, a)
    IN  IF g.raised # None
        THEN [raised |-> g.raised, analyzer |-> a, high |-> <<>>, low |-> <<>>,
              anonymized_text |-> <<>>, mappings |-> EmptyFn, mapper |-> PlaceholderMapper]
        ELSE LET r == analyze(g.analyzer, t, results)
                 m == anonymize_text_with_mapping(t, r.high, PlaceholderMapper)
             IN  [raised |-> None, analyzer |-> r.analyzer, high |-> r.high, low |-> r.low,
                  anonymized_text |-> m.text, mappings |-> m.mappings, mapper |-> m.mapper]

LowerChar(c) ==
    CASE c = "T" -> "t"
      [] c = "X" -> "x"
      [] c = "E" -> "e"
      [] OTHER -> c

\* str.lower() of a suffix
Lower(suffix) == [i \in 1..Len(suffix) |-> LowerChar(suffix[i])]

\* config.SUPPORTED_FILE_EXTENSIONS
SUPPORTED_FILE_EXTENSIONS ==
    {<<".", "t", "x", "t">>, <<".", "d", "o", "c", "x">>, <<".", "p", "d", "f">>,
     <<".", "m", "d">>}

\* a validation that accepts every suffix
_validate_file_extension_accepts_all(suffix) == None

\* _validate_file_extension: ValueError unless the lowered suffix is supported
_validate_file_extension(suffix) ==
    IF Lower(suffix) \notin SUPPORTED_FILE_EXTENSIONS THEN "ValueError" ELSE None

\* input_path.name
DocumentName(suffix) == <<"d">> \o suffix

\* save_mapping_to_file: the JSON object written (the timestamp is the clock's)
save_mapping_to_file(mapping, document_name, language, min_confidence_score) ==
    [document |-> document_name,
     language |-> language,
     min_confidence_score |-> min_confidence_score,
     mappings |-> mapping]

\* save_excluded_entities_to_file: the JSON object written
save_excluded_entities_to_file(es, document_name, language, min_confidence_score) ==
    [document |-> document_name,
     language |-> language,
     min_confidence_score |-> min_confidence_score,
     note |-> "note",
     entities |-> [i \in 1..Len(es) |->
                      [text |-> es[i].text,
                       entity_type |-> es[i].entity_type,
                       score |-> Round4(es[i].score),
                       start |-> es[i].start,
                       end |-> es[i].end]]]

\* anonymize_file on the document (suffix, t), given what the engine returns
\* on t and the files there are: the extension is validated, the text read
\* and anonymized, then the document, the mapping and, when there are
\* low-confidence entities, the excluded-entities file are written
anonymize_file(svc, a, suffix, t, results, files) ==
    LET invalid == _validate_file_extension(suffix)
        r       == anonymize_text(svc, a, t, results)
        name    == DocumentName(suffix)
        quiet   == [raised |-> None, returned |-> None, analyzer |-> a, fs |-> files,
                    high |-> <<>>, low |-> <<>>,
                    anonymized_text |-> <<>>, mappings |-> EmptyFn, entities_count |-> 0,
                    mapper |-> PlaceholderMapper]
    IN  IF invalid # None THEN [quiet EXCEPT !.raised = invalid]
        ELSE IF r.raised # None THEN [quiet EXCEPT !.raised = r.raised]
        ELSE [raised |-> None,
              returned |-> "DocumentResult",
              analyzer |-> r.analyzer,
              fs |-> [document |-> File(r.anonymized_text),
                      mapping |-> File(save_mapping_to_file(r.mappings, name, svc.language,
                                                            svc.min_confidence)),
                      excluded |-> IF r.low # <<>>
                                   THEN File(save_excluded_entities_to_file(
                                                 r.low, name, svc.language,
                                                 svc.min_confidence))
                                   ELSE files.excluded],
              high |-> r.high, low |-> r.low,
              anonymized_text |-> r.anonymized_text, mappings |-> r.mappings,
              entities_count |-> Len(r.high),
              mapper |-> r.mapper]

-----------------------------------------------------------------------------
(* One service and one document: anonymize_text and anonymize_file *)

DocTexts == SeqsUpTo(Alphabet, MaxDocLen)

InputSuffixes == {<<".", "t", "x", "t">>, <<".", "T", "X", "T">>, <<".", "e", "x", "e">>}

InitService ==
    /\ mapper = PlaceholderMapper
    /\ pc = "service"
    /\ last = NoCall
    /\ returned = {}
    /\ firstSeen = <<>>
    /\ text = <<>>
    /\ entities = <<>>
    /\ result = NoResult
    /\ \E language \in ServiceLanguages : \E min_confidence \in MinConfidenceArgs :
          service = AnonymizerService(language, {}, min_confidence)
    /\ analyzer = NoAnalyzer
    /\ \E suffix \in InputSuffixes : \E t \in DocTexts :
          \E results \in SeqsUpTo(RecognizerResults(t, EntityTypes), MaxSpans) :
              input = [suffix |-> suffix, text |-> t, detected |-> results]
    /\ unit = NoUnit
    /\ fs = EmptyFs
    /\ session = NoSession

\* service.anonymize_text(text)
ServiceAnonymizeText ==
    LET r == anonymize_text(service, analyzer, input.text, input.detected)
    IN  /\ pc = "service"
        /\ analyzer' = r.analyzer
        /\ mapper' = r.mapper
        /\ unit' = [NoUnit EXCEPT
                      !.op = "anonymize_text",
                      !.outcome = IF r.raised # None THEN r.raised ELSE "ok",
                      !.text = input.text, !.detected = input.detected,
                      !.high = r.high, !.low = r.low,
                      !.anonymized_text = r.anonymized_text, !.mappings = r.mappings,
                      !.entities_count = Len(r.high)]
        /\ UNCHANGED <<pc, mapperHistory, anonVars, service, input, fs, session>>

\* service.anonymize_file(input_path)
ServiceAnonymizeFile ==
    \E r \in {anonymize_file(service, analyzer, input.suffix, input.text, input.detected, fs)} :
        /\ pc = "service"
        /\ analyzer' = r.analyzer
        /\ mapper' = IF _validate_file_extension(input.suffix) # None THEN mapper ELSE r.mapper
        /\ fs' = r.fs
        /\ unit' = IF _validate_file_extension(input.suffix) # None
                   THEN [NoUnit EXCEPT !.op = "anonymize_file", !.outcome = r.raised]
                   ELSE [NoUnit EXCEPT
                           !.op = "anonymize_file",
                           !.outcome = IF r.raised # None THEN r.raised ELSE "ok",
                           !.text = input.text, !.detected = input.detected,
                           !.high = r.high, !.low = r.low,
                           !.anonymized_text = r.anonymized_text,
                           !.mappings = r.mappings,
                           !.entities_count = r.entities_count]
        /\ UNCHANGED <<pc, mapperHistory, anonVars, service, input, session>>

NextService ==
    \/ ServiceAnonymizeText
    \/ ServiceAnonymizeFile

SpecService == InitService /\ [][NextService]_vars

-----------------------------------------------------------------------------
(* anonymize_file_with_selection *)

\* the PIIEntity objects of a list: id(e) is the object's place in the list
\* analyze returned, so that two entities equal in every field are two objects
Objects(es) == [i \in 1..Len(es) |-> [id |-> i, entity |-> es[i]]]

EntitiesOf(objects) == [i \in 1..Len(objects) |-> objects[i].entity]

\* the selection_callback argument: None, or a function that returns None
\* (cancel) or the list of the objects it keeps; keep holds the places of the
\* kept objects in the list the callback is given, which it returns in that
\* order (gui.py builds the list in the order of the rows)
NoCallback == [given |-> FALSE, cancel |-> FALSE, keep |-> {}]
CancelCallback == [given |-> TRUE, cancel |-> TRUE, keep |-> {}]
KeepCallback(keep) == [given |-> TRUE, cancel |-> FALSE, keep |-> keep]

\* selection_callback(all_entities_above_threshold, text): None, or a list
CallbackReturn(callback, objects) ==
    [none |-> callback.cancel,
     list |-> IF callback.cancel THEN <<>>
              ELSE SelectSeq(objects, LAMBDA o : o.id \in callback.keep)]

\* a test that takes no value for None
IsNoneNever(ret) == FALSE

\* a test that takes the empty list for None as well
IsNoneOrEmpty(ret) == ret.none \/ ret.list = <<>>

\* selected_entities is None
IsNone(ret) == ret.none

\* excluded entities chosen by comparing the entities' fields
ExcludedByValue(objects, selected) ==
    SelectSeq(objects, LAMBDA o : \A k \in 1..Len(selected) : selected[k].entity # o.entity)

\* selected_set = set(id(e) for e in selected_entities) and the list of the
\* entities above the threshold whose id is not in it
ExcludedById(objects, selected) ==
    LET selected_set == {selected[k].id : k \in 1..Len(selected)}
    IN  SelectSeq(objects, LAMBDA o : o.id \notin selected_set)

\* anonymize_file_with_selection on the document (suffix, t), given what the
\* engine returns on t and the files there are: what is raised or returned,
\* the analyzer and the files after the call
anonymize_file_with_selection(svc, a, suffix, t, results, callback, files) ==
    LET invalid == _validate_file_extension(suffix)
        g       == _get_analyzer(svc, a)
        r       == analyze(g.analyzer, t, results)
        above   == Objects(r.high)
        ret     == CallbackReturn(callback, above)
        selected == IF callback.given THEN ret.list ELSE above
        excluded == ExcludedById(above, selected)
        m       == anonymize_text_with_mapping(t, EntitiesOf(selected), PlaceholderMapper)
        name    == DocumentName(suffix)
        quiet   == [raised |-> None, returned |-> None, analyzer |-> a, fs |-> files,
                    high |-> <<>>, low |-> <<>>, selected |-> <<>>, excluded |-> <<>>,
                    anonymized_text |-> <<>>, mappings |-> EmptyFn, entities_count |-> 0,
                    mapper |-> PlaceholderMapper]
    IN  IF invalid # None THEN [quiet EXCEPT !.raised = invalid]
        ELSE IF g.raised # None THEN [quiet EXCEPT !.raised = g.raised]
        ELSE IF callback.given /\ IsNone(ret)
        THEN [quiet EXCEPT !.analyzer = r.analyzer, !.high = r.high, !.low = r.low]
        ELSE [raised |-> None,
              returned |-> "DocumentResult",
              analyzer |-> r.analyzer,
              fs |-> [document |-> File(m.text),
                      mapping |-> File(save_mapping_to_file(m.mappings, name, svc.language,
                                                            svc.min_confidence)),
                      excluded |-> IF excluded # <<>>
                                   THEN File(save_excluded_entities_to_file(
                                                 EntitiesOf(excluded), name, svc.language,
                                                 svc.min_confidence))
                                   ELSE files.excluded],
              high |-> r.high, low |-> r.low,
              selected |-> selected, excluded |-> excluded,
              anonymized_text |-> m.text, mappings |-> m.mappings,
              entities_count |-> Len(selected),
              mapper |-> m.mapper]

-----------------------------------------------------------------------------
(* One service and one document: anonymize_file_with_selection, called any   *)
(* number of times with any callback                                         *)

\* the (entity_type, score) pairs of the detector's results: below and above
\* the threshold
SelectionKinds == {<<PERSON, 69996>>, <<PERSON, 90004>>}

SelectionResults(t) ==
    {[entity_type |-> k[1], start |-> r[1], end |-> r[2], score |-> k[2]] :
        k \in SelectionKinds, r \in Ranges(t)}

\* the documents: texts that repeat one character, and texts that end in
\* another one
SelectionTexts == {t \in DocTexts : \A i \in 1..(Len(t) - 1) : t[i] = "a"}

SelectionSuffixes == {<<".", "t", "x", "t">>, <<".", "e", "x", "e">>}

SelectionServices ==
    {AnonymizerService("en", {}, NoArg), AnonymizerService("fr", {}, NoArg)}

\* the callbacks there are for a list of n entities
Callbacks(n) == {NoCallback, CancelCallback} \cup {KeepCallback(keep) : keep \in SUBSET (1..n)}

InitSelection ==
    /\ mapper = PlaceholderMapper
    /\ pc = "selection"
    /\ last = NoCall
    /\ returned = {}
    /\ firstSeen = <<>>
    /\ text = <<>>
    /\ entities = <<>>
    /\ result = NoResult
    /\ service \in SelectionServices
    /\ analyzer = NoAnalyzer
    /\ \E suffix \in SelectionSuffixes : \E t \in SelectionTexts :
          \E results \in SeqsUpTo(SelectionResults(t), MaxSpans) :
              input = [suffix |-> suffix, text |-> t, detected |-> results]
    /\ unit = NoUnit
    /\ fs = EmptyFs
    /\ session = NoSession

\* service.anonymize_file_with_selection(input_path, None, callback)
ServiceAnonymizeFileWithSelection(callback) ==
    \E r \in {anonymize_file_with_selection(service, analyzer, input.suffix, input.text,
                                             input.detected, callback, fs)} :
        /\ pc = "selection"
        /\ analyzer' = r.analyzer
        /\ mapper' = r.mapper
        /\ fs' = r.fs
        /\ unit' = [NoUnit EXCEPT
                      !.op = "anonymize_file_with_selection",
                      !.outcome = IF r.raised # None THEN r.raised
                                  ELSE IF r.returned = None THEN "cancelled" ELSE "ok",
                      !.text = input.text, !.detected = input.detected,
                      !.high = r.high, !.low = r.low,
                      !.selected = r.selected, !.excluded = r.excluded,
                      !.anonymized_text = r.anonymized_text, !.mappings = r.mappings,
                      !.entities_count = r.entities_count]
        /\ last' = [op |-> "anonymize_file_with_selection", callback |-> callback]
        /\ UNCHANGED <<pc, returned, firstSeen, anonVars, service, input, session>>

\* the callback is any function on the list it is given
NextSelection ==
    \E callback \in Callbacks(Len(analyze(analyzer, input.text, input.detected).high)) :
        ServiceAnonymizeFileWithSelection(callback)

SpecSelection == InitSelection /\ [][NextSelection]_vars

-----------------------------------------------------------------------------
(* One service and a sequence of units: anonymize_text, anonymize_file and   *)
(* anonymize_file_with_selection in any order, each on a document of its own *)

TXT == <<".", "t", "x", "t">>

Result(entity_type, start, end, score) ==
    [entity_type |-> entity_type, start |-> start, end |-> end, score |-> score]

\* the documents of a session: one value; two values of one type; a second
\* type and a span below the threshold; a file the service does not support
SessionDocs ==
    {[suffix |-> TXT, text |-> <<"a">>,
      detected |-> <<Result(PERSON, 0, 1, 90004)>>],
     [suffix |-> TXT, text |-> <<"A", "a">>,
      detected |-> <<Result(PERSON, 0, 1, 90004), Result(PERSON, 1, 2, 90004)>>],
     [suffix |-> TXT, text |-> <<"a", "A">>,
      detected |-> <<Result(EMAIL_ADDRESS, 0, 2, 90004), Result(PERSON, 0, 1, 69996)>>],
     [suffix |-> <<".", "e", "x", "e">>, text |-> <<"a">>, detected |-> <<>>]}

SessionServices ==
    {AnonymizerService("en", {}, NoArg), AnonymizerService("fr", {}, NoArg)}

InitSession ==
    /\ mapper = PlaceholderMapper
    /\ pc = "session"
    /\ last = NoCall
    /\ returned = {}
    /\ firstSeen = <<>>
    /\ text = <<>>
    /\ entities = <<>>
    /\ result = NoResult
    /\ service \in SessionServices
    /\ analyzer = NoAnalyzer
    /\ input = NoInput
    /\ unit = NoUnit
    /\ fs = EmptyFs
    /\ session = NoSession

\* what the history keeps of a call: the unit before it, and whether the call
\* built a PIIAnalyzer, whether it created an engine
SessionAfter(reached) ==
    LET g == _get_analyzer(service, analyzer)
        built  == reached /\ g.raised = None /\ g.analyzer # analyzer
        engine == reached /\ g.raised = None /\ _get_engine(g.analyzer) # g.analyzer
    IN  [analyzers |-> session.analyzers + (IF built THEN 1 ELSE 0),
         engines   |-> session.engines + (IF engine THEN 1 ELSE 0),
         previous  |-> unit]

\* service.anonymize_text(doc.text)
SessionAnonymizeText(doc) ==
    \E r \in {anonymize_text(service, analyzer, doc.text, doc.detected)} :
        /\ pc = "session"
        /\ input' = doc
        /\ analyzer' = r.analyzer
        /\ mapper' = r.mapper
        /\ unit' = [NoUnit EXCEPT
                      !.op = "anonymize_text",
                      !.outcome = IF r.raised # None THEN r.raised ELSE "ok",
                      !.text = doc.text, !.detected = doc.detected,
                      !.high = r.high, !.low = r.low,
                      !.anonymized_text = r.anonymized_text, !.mappings = r.mappings,
                      !.entities_count = Len(r.high)]
        /\ last' = [op |-> "anonymize_text", callback |-> NoCallback]
        /\ session' = SessionAfter(TRUE)
        /\ UNCHANGED <<pc, returned, firstSeen, anonVars, service, fs>>

\* service.anonymize_file(doc)
SessionAnonymizeFile(doc) ==
    \E r \in {anonymize_file(service, analyzer, doc.suffix, doc.text, doc.detected, fs)} :
        /\ pc = "session"
        /\ input' = doc
        /\ analyzer' = r.analyzer
        /\ mapper' = r.mapper
        /\ fs' = r.fs
        /\ unit' = [NoUnit EXCEPT
                      !.op = "anonymize_file",
                      !.outcome = IF r.raised # None THEN r.raised ELSE "ok",
                      !.text = doc.text, !.detected = doc.detected,
                      !.high = r.high, !.low = r.low,
                      !.anonymized_text = r.anonymized_text, !.mappings = r.mappings,
                      !.entities_count = r.entities_count]
        /\ last' = [op |-> "anonymize_file", callback |-> NoCallback]
        /\ session' = SessionAfter(_validate_file_extension(doc.suffix) = None)
        /\ UNCHANGED <<pc, returned, firstSeen, anonVars, service>>

\* service.anonymize_file_with_selection(doc, None, callback)
SessionAnonymizeFileWithSelection(doc, callback) ==
    \E r \in {anonymize_file_with_selection(service, analyzer, doc.suffix, doc.text,
                                             doc.detected, callback, fs)} :
        /\ pc = "session"
        /\ input' = doc
        /\ analyzer' = r.analyzer
        /\ mapper' = r.mapper
        /\ fs' = r.fs
        /\ unit' = [NoUnit EXCEPT
                      !.op = "anonymize_file_with_selection",
                      !.outcome = IF r.raised # None THEN r.raised
                                  ELSE IF r.returned = None THEN "cancelled" ELSE "ok",
                      !.text = doc.text, !.detected = doc.detected,
                      !.high = r.high, !.low = r.low,
                      !.selected = r.selected, !.excluded = r.excluded,
                      !.anonymized_text = r.anonymized_text, !.mappings = r.mappings,
                      !.entities_count = r.entities_count]
        /\ last' = [op |-> "anonymize_file_with_selection", callback |-> callback]
        /\ session' = SessionAfter(_validate_file_extension(doc.suffix) = None)
        /\ UNCHANGED <<pc, returned, firstSeen, anonVars, service>>

NextSession ==
    \E doc \in SessionDocs :
        \/ SessionAnonymizeText(doc)
        \/ SessionAnonymizeFile(doc)
        \/ \E callback \in Callbacks(Len(analyze(analyzer, doc.text, doc.detected).high)) :
              SessionAnonymizeFileWithSelection(doc, callback)

SpecSession == InitSession /\ [][NextSession]_vars

-----------------------------------------------------------------------------
(* Paths: _resolve_output_path.  A path is its spelling: whether it is
   absolute, the names of its directories, and the file name, a string of
   characters. *)

Path(absolute, parent, name) == [absolute |-> absolute, parent |-> parent, name |-> name]

\* name.rfind("."), counted from 1; 0 when there is no dot
LastDot(name) ==
    IF \E i \in 1..Len(name) : name[i] = "."
    THEN CHOOSE i \in 1..Len(name) :
            name[i] = "." /\ \A j \in (i + 1)..Len(name) : name[j] # "."
    ELSE 0

\* PurePath.suffix: from the last dot, unless the dot starts or ends the name
suffix(name) ==
    IF LastDot(name) > 1 /\ LastDot(name) < Len(name)
    THEN SubSeq(name, LastDot(name), Len(name))
    ELSE <<>>

\* PurePath.stem: the name without its suffix
stem(name) ==
    IF LastDot(name) > 1 /\ LastDot(name) < Len(name)
    THEN SubSeq(name, 1, LastDot(name) - 1)
    ELSE name

\* the working directory /w
Cwd == <<"w">>

\* the symbolic links of the file system: the directory /k is a link to /w,
\* and the file /w/l.txt is a link to /w/d.txt
DirLinks == (<<"k">> :> <<"w">>)
FileLinks ==
    ([dir |-> <<"w">>, name |-> <<"l", ".", "t", "x", "t">>]
        :> [dir |-> <<"w">>, name |-> <<"d", ".", "t", "x", "t">>])

RECURSIVE ResolveDir(_, _)
\* the directory reached from dir through parts: ".." goes up, a link is
\* followed
ResolveDir(dir, parts) ==
    IF parts = <<>> THEN dir
    ELSE IF Head(parts) = ".."
         THEN ResolveDir(IF dir = <<>> THEN <<>> ELSE SubSeq(dir, 1, Len(dir) - 1),
                         Tail(parts))
         ELSE LET d == Append(dir, Head(parts))
              IN  ResolveDir(IF d \in DOMAIN DirLinks THEN DirLinks[d] ELSE d,
                             Tail(parts))

\* Path.resolve(): absolute, without "..", links followed
resolve(p) ==
    LET dir  == ResolveDir(IF p.absolute THEN <<>> ELSE Cwd, p.parent)
        file == [dir |-> dir, name |-> p.name]
    IN  IF file \in DOMAIN FileLinks THEN FileLinks[file] ELSE file

NoPath == [given |-> FALSE]
GivenPath(p) == [given |-> TRUE, value |-> p]

\* input_path.parent / f"{stem}.anonym{suffix}"
AnonymPath(input_path) ==
    Path(input_path.absolute, input_path.parent,
         stem(input_path.name) \o <<".", "a", "n", "o", "n", "y", "m">>
             \o suffix(input_path.name))

\* a check that compares the paths as they are spelled
_resolve_output_path_compares_spelling(input_path, output_path) ==
    IF output_path.given
    THEN IF output_path.value = input_path
         THEN AnonymPath(input_path)
         ELSE output_path.value
    ELSE AnonymPath(input_path)

\* _resolve_output_path
_resolve_output_path(input_path, output_path) ==
    IF output_path.given
    THEN IF resolve(output_path.value) = resolve(input_path)
         THEN AnonymPath(input_path)
         ELSE output_path.value
    ELSE AnonymPath(input_path)

-----------------------------------------------------------------------------
(* One call of _resolve_output_path *)

\* spellings of directories: /w as the working directory, through s/.., by
\* its absolute path and through the link /k; and the directory /w/s
ParentSpellings ==
    {[absolute |-> FALSE, parent |-> <<>>],
     [absolute |-> FALSE, parent |-> <<"s", "..">>],
     [absolute |-> TRUE,  parent |-> <<"w">>],
     [absolute |-> TRUE,  parent |-> <<"k">>],
     [absolute |-> FALSE, parent |-> <<"s">>]}

FileNames ==
    {<<"d", ".", "t", "x", "t">>,
     <<"l", ".", "t", "x", "t">>,
     <<"d", ".", "a", "n", "o", "n", "y", "m", ".", "t", "x", "t">>,
     <<"d">>,
     <<".", "t", "x", "t">>}

Paths == {Path(d.absolute, d.parent, n) : d \in ParentSpellings, n \in FileNames}

InitPaths ==
    /\ mapper = PlaceholderMapper
    /\ pc = "paths"
    /\ last = NoCall
    /\ returned = {}
    /\ firstSeen = <<>>
    /\ text = <<>>
    /\ entities = <<>>
    /\ result = NoResult
    /\ service = NoService
    /\ analyzer = NoAnalyzer
    /\ \E p \in Paths : \E o \in {NoPath} \cup {GivenPath(q) : q \in Paths} :
          input = [input_path |-> p, output_path |-> o]
    /\ unit = NoUnit
    /\ fs = EmptyFs
    /\ session = NoSession

ResolveOutputPath ==
    /\ pc = "paths"
    /\ pc' = "resolved"
    /\ last' = [op |-> "_resolve_output_path",
                output_path |-> _resolve_output_path(input.input_path, input.output_path)]
    /\ UNCHANGED <<mapper, returned, firstSeen, anonVars, serviceVars>>

NextPaths == ResolveOutputPath

SpecPaths == InitPaths /\ [][NextPaths]_vars

-----------------------------------------------------------------------------
(* One PIIAnalyzer and callers that run analyze at the same time: the steps   *)
(* of _get_engine of each caller, interleaved.  The code takes no lock.       *)

Callers == {"caller1", "caller2", "caller3"}

\* the AnalyzerEngine objects in the order _create_engine returns them; the
\* first is the engine of the sequential specifications
EngineObjects == <<"AnalyzerEngine", "AnalyzerEngine2", "AnalyzerEngine3">>

\* a caller's frame: the engine _create_engine returned to it, the engine
\* _get_engine returned to it
NoFrame == [created |-> None, engine |-> None]

InitConcurrent ==
    /\ mapper = PlaceholderMapper
    /\ pc = [c \in Callers |-> "test"]
    /\ last = [c \in Callers |-> NoFrame]
    /\ returned = {}
    /\ firstSeen = <<>>
    /\ text = <<>>
    /\ entities = <<>>
    /\ result = NoResult
    /\ service = NoService
    /\ analyzer = PIIAnalyzer("en", EntityTypes).analyzer
    /\ input = NoInput
    /\ unit = NoUnit
    /\ fs = EmptyFs
    /\ session = NoSession

\* if self._engine is None
TestEngine(c) ==
    /\ pc[c] = "test"
    /\ pc' = [pc EXCEPT ![c] = IF analyzer.engine = None THEN "create" ELSE "return"]
    /\ UNCHANGED <<mapper, mapperHistory, anonVars, serviceVars>>

\* self._create_engine(): a new AnalyzerEngine
CreateEngine(c) ==
    /\ pc[c] = "create"
    /\ session' = [session EXCEPT !.engines = @ + 1]
    /\ last' = [last EXCEPT ![c].created = EngineObjects[session.engines + 1]]
    /\ pc' = [pc EXCEPT ![c] = "assign"]
    /\ UNCHANGED <<mapper, returned, firstSeen, anonVars, service, analyzer, input, unit, fs>>

\* self._engine = the engine created
AssignEngine(c) ==
    /\ pc[c] = "assign"
    /\ analyzer' = [analyzer EXCEPT !.engine = last[c].created]
    /\ pc' = [pc EXCEPT ![c] = "return"]
    /\ UNCHANGED <<mapper, mapperHistory, anonVars, service, input, unit, fs, session>>

\* return self._engine
ReturnEngine(c) ==
    /\ pc[c] = "return"
    /\ last' = [last EXCEPT ![c].engine = analyzer.engine]
    /\ pc' = [pc EXCEPT ![c] = "done"]
    /\ UNCHANGED <<mapper, returned, firstSeen, anonVars, serviceVars>>

NextConcurrent ==
    \E c \in Callers :
        \/ TestEngine(c)
        \/ CreateEngine(c)
        \/ AssignEngine(c)
        \/ ReturnEngine(c)

SpecConcurrent == InitConcurrent /\ [][NextConcurrent]_vars

-----------------------------------------------------------------------------
(* A mapper session whose caller keeps and changes what get_mappings returned *)

\* The entries of _placeholder_to_value are dict objects.  A slot of the dict
\* a caller holds either refers to the entry object the mapper holds under the
\* same placeholder (shared) or holds an entry of its own.
NoEntry == [text |-> <<>>, entity_type |-> <<>>, score |-> 0]

\* dict(d): a new dict whose values are the objects d holds
dict(d) == [p \in DOMAIN d |-> [shared |-> TRUE, entry |-> NoEntry]]

\* what the caller reads in the dict it holds
Read(slots, m) ==
    [p \in DOMAIN slots |->
        IF slots[p].shared THEN m.placeholder_to_value[p] ELSE slots[p].entry]

\* d.clear() leaves the entry objects to whoever else holds them
ClearedUnder(slots, m) ==
    [p \in DOMAIN slots |->
        IF slots[p].shared
        THEN [shared |-> FALSE, entry |-> m.placeholder_to_value[p]]
        ELSE slots[p]]

SnapshotEntities ==
    {[entity_type |-> PERSON, text |-> x, start |-> 0, end |-> Len(x), score |-> 90004] :
        x \in {<<"a">>, <<"A">>}}

\* what a caller writes into an entry
Written(field) ==
    CASE field = "text" -> <<"x">>
      [] field = "entity_type" -> EMAIL_ADDRESS
      [] field = "score" -> 0

\* the keys a caller sets or deletes in the dict it holds
CallerKeys == {FormatPlaceholder(PERSON, 1), FormatPlaceholder(EMAIL_ADDRESS, 1)}

InitSnapshot ==
    /\ mapper = PlaceholderMapper
    /\ pc = "mapper"
    /\ last = NoCall
    /\ returned = {}
    /\ firstSeen = <<>>
    /\ text = <<>>
    /\ entities = <<>>
    /\ result = NoResult
    /\ NoServiceYet

\* snapshot = mapper.get_mappings()
CallGetMappings ==
    /\ pc = "mapper"
    /\ result' = [text |-> <<>>, mappings |-> dict(mapper.placeholder_to_value),
                  returned |-> TRUE]
    /\ last' = [op |-> "get_mappings"]
    /\ UNCHANGED <<mapper, pc, returned, firstSeen, text, entities, serviceVars>>

\* snapshot[p][field] = value
WriteEntry(p, field) ==
    /\ pc = "mapper"
    /\ result.returned
    /\ p \in DOMAIN result.mappings
    /\ IF result.mappings[p].shared
       THEN /\ mapper' = [mapper EXCEPT !.placeholder_to_value[p][field] = Written(field)]
            /\ result' = result
       ELSE /\ result' = [result EXCEPT !.mappings[p].entry[field] = Written(field)]
            /\ mapper' = mapper
    /\ last' = [op |-> "write"]
    /\ UNCHANGED <<pc, returned, firstSeen, text, entities, serviceVars>>

\* snapshot[p] = {"text": ..., "entity_type": ..., "score": ...}
SetKey(p) ==
    /\ pc = "mapper"
    /\ result.returned
    /\ result' = [result EXCEPT !.mappings =
                     [q \in DOMAIN @ \cup {p} |->
                         IF q = p
                         THEN [shared |-> FALSE,
                               entry |-> [text |-> Written("text"),
                                          entity_type |-> Written("entity_type"),
                                          score |-> Written("score")]]
                         ELSE @[q]]]
    /\ last' = [op |-> "write"]
    /\ UNCHANGED <<mapper, pc, returned, firstSeen, text, entities, serviceVars>>

\* del snapshot[p]
DeleteKey(p) ==
    /\ pc = "mapper"
    /\ result.returned
    /\ p \in DOMAIN result.mappings
    /\ result' = [result EXCEPT !.mappings = [q \in DOMAIN @ \ {p} |-> @[q]]]
    /\ last' = [op |-> "write"]
    /\ UNCHANGED <<mapper, pc, returned, firstSeen, text, entities, serviceVars>>

\* mapper.reset() while the caller holds a dict
ResetUnderSnapshot ==
    /\ pc = "mapper"
    /\ mapper' = reset(mapper)
    /\ result' = [result EXCEPT !.mappings = ClearedUnder(@, mapper)]
    /\ last' = [op |-> "reset", cleared |-> Cardinality(DOMAIN mapper.placeholder_to_value)]
    /\ returned' = {}
    /\ firstSeen' = <<>>
    /\ UNCHANGED <<pc, text, entities, serviceVars>>

NextSnapshot ==
    \/ \E entity \in SnapshotEntities : CallGetPlaceholder(entity)
    \/ CallGetMappings
    \/ \E p \in CallerKeys : \E field \in {"text", "entity_type", "score"} : WriteEntry(p, field)
    \/ \E p \in CallerKeys : SetKey(p)
    \/ \E p \in CallerKeys : DeleteKey(p)
    \/ ResetUnderSnapshot

SpecSnapshot == InitSnapshot /\ [][NextSnapshot]_vars

-----------------------------------------------------------------------------
(* Reading a placeholder back: the form <ENTITY_TYPE_N> *)

DigitChars == {Digit(d) : d \in 0..9}

DigitValue(c) == CHOOSE d \in 0..9 : Digit(d) = c

RECURSIVE StrToInt(_)
StrToInt(ds) ==
    IF ds = <<>> THEN 0
    ELSE 10 * StrToInt(SubSeq(ds, 1, Len(ds) - 1)) + DigitValue(ds[Len(ds)])

\* the characters of p between "<TYPE_" and ">"
NumberPart(p, entity_type) == SubSeq(p, Len(entity_type) + 3, Len(p) - 1)

\* p is "<", the type, "_", a positive decimal number without leading zero, ">"
HasPlaceholderForm(p, entity_type) ==
    /\ Len(p) >= Len(entity_type) + 4
    /\ p[1] = "<"
    /\ SubSeq(p, 2, Len(entity_type) + 1) = entity_type
    /\ p[Len(entity_type) + 2] = "_"
    /\ p[Len(p)] = ">"
    /\ \A i \in 1..Len(NumberPart(p, entity_type)) :
          NumberPart(p, entity_type)[i] \in DigitChars
    /\ NumberPart(p, entity_type)[1] # "0"

PlaceholderNumber(p, entity_type) == StrToInt(NumberPart(p, entity_type))

-----------------------------------------------------------------------------
(* Claims about the mapper session (SpecMapper) *)

\* C1: within one session, two entities with the same entity_type and the same
\* text were given the same placeholder by get_placeholder, whatever their
\* start, end and score and whatever was looked up in between.
C1_SameValueSamePlaceholder ==
    \A x \in returned : \A y \in returned :
        SameValue(x, y) => x.placeholder = y.placeholder

\* a value is looked up again, at another score than the one stored, after
\* other values were looked up
C1_Witness ==
    /\ last.op = "get_placeholder"
    /\ last.hit
    /\ Len(firstSeen) >= 2
    /\ \E i \in 1..Len(firstSeen) :
          SameValue(firstSeen[i], last.entity) /\ firstSeen[i].score # last.entity.score

\* C2: within one session two entities share a placeholder only if they have
\* the same entity_type and exactly the same text, and every placeholder
\* returned has the form <ENTITY_TYPE_N> for the type of the entity.
C2_UniquePerValue ==
    \A x \in returned :
        /\ HasPlaceholderForm(x.placeholder, x.entity_type)
        /\ \A y \in returned : x.placeholder = y.placeholder => SameValue(x, y)

\* texts that differ only in case, and one text under two types, were looked up
C2_Witness ==
    /\ \E x \in returned : \E y \in returned :
          x.entity_type = y.entity_type /\ x.text = <<"a">> /\ y.text = <<"A">>
    /\ \E x \in returned : \E y \in returned :
          x.entity_type # y.entity_type /\ x.text = y.text

\* the values of one type among the first i values looked up
RankInType(i) ==
    Cardinality({j \in 1..i : firstSeen[j].entity_type = firstSeen[i].entity_type})

\* C3: for every entity type the numbers in the placeholders assigned so far
\* are 1..k, k the number of distinct texts of that type seen, given out in the
\* order of first lookup: the i-th new value of a type has number i.
C3_DenseNumbering ==
    /\ \A i \in 1..Len(firstSeen) :
          \E x \in returned :
              /\ SameValue(x, firstSeen[i])
              /\ PlaceholderNumber(x.placeholder, x.entity_type) = RankInType(i)
    /\ \A x \in returned :
          PlaceholderNumber(x.placeholder, x.entity_type) \in
              1..Cardinality({i \in 1..Len(firstSeen) :
                                 firstSeen[i].entity_type = x.entity_type})

\* three values of one type have been numbered
C3_Witness ==
    /\ Len(firstSeen) = 3
    /\ \A i \in 1..Len(firstSeen) : firstSeen[i].entity_type = PERSON
    /\ last.op = "get_placeholder"
    /\ PlaceholderNumber(last.placeholder, PERSON) = 3

CounterOf(m, entity_type) ==
    IF entity_type \in DOMAIN m.type_counters THEN m.type_counters[entity_type] ELSE 0

\* C4: a get_placeholder call for an entity of type T leaves the counter of
\* every other type, and the placeholder the next new value of that type will
\* get, as they were.
C4_CounterIsolation ==
    [][ last'.op = "get_placeholder" =>
          \A t \in EntityTypes \ {last'.entity.entity_type} :
              /\ (t \in DOMAIN mapper'.type_counters) = (t \in DOMAIN mapper.type_counters)
              /\ CounterOf(mapper', t) = CounterOf(mapper, t)
              /\ _generate_new_placeholder(mapper'.type_counters, t).placeholder
                   = _generate_new_placeholder(mapper.type_counters, t).placeholder ]_vars

\* a new value of one type was numbered while the other type had a counter
C4_Witness ==
    /\ last.op = "get_placeholder"
    /\ ~last.hit
    /\ last.entity.entity_type = EMAIL_ADDRESS
    /\ CounterOf(mapper, EMAIL_ADDRESS) = 1
    /\ CounterOf(mapper, PERSON) = 2

\* C5: a get_placeholder call for a value already seen in the session changes
\* nothing in the mapper, and every stored entry carries the text and the
\* (rounded) score of the first lookup of its value.
C5_SeenValueNoChange ==
    /\ [][ (last'.op = "get_placeholder" /\ last'.hit) => mapper' = mapper ]_vars
    /\ [](\A i \in 1..Len(firstSeen) :
            \E x \in returned :
                /\ SameValue(x, firstSeen[i])
                /\ x.placeholder \in DOMAIN mapper.placeholder_to_value
                /\ mapper.placeholder_to_value[x.placeholder] =
                      [text |-> firstSeen[i].text,
                       entity_type |-> firstSeen[i].entity_type,
                       score |-> Round4(firstSeen[i].score)])

\* a seen value came again with another score
C5_Witness ==
    /\ last.op = "get_placeholder"
    /\ last.hit
    /\ last.placeholder \in DOMAIN mapper.placeholder_to_value
    /\ mapper.placeholder_to_value[last.placeholder].score # Round4(last.entity.score)

\* C20: from every state of a session reset leaves the mapper as a new one
\* is: get_mappings is empty, and get_placeholder for any entity, also one
\* seen before the reset, returns what a new mapper returns, the placeholder
\* with number 1 of the entity's type.
C20_ResetRestoresInitial ==
    last.op = "reset" =>
        /\ get_mappings(mapper) = EmptyFn
        /\ mapper = PlaceholderMapper
        /\ \A entity \in MapperEntities :
              LET r == get_placeholder(mapper, entity)
              IN  /\ HasPlaceholderForm(r.placeholder, entity.entity_type)
                  /\ PlaceholderNumber(r.placeholder, entity.entity_type) = 1
                  /\ r = get_placeholder(PlaceholderMapper, entity)

\* the reset cleared a mapper that held three values
C20_Witness ==
    /\ last.op = "reset"
    /\ last.cleared = 3

\* C30: in every state that get_placeholder and reset calls reach, every key of
\* the value-to-placeholder lookup maps to a placeholder that has an entry, and
\* the key is the one of that entry's type and text; every entry's placeholder
\* is the image of exactly one key; and the counter of every entity type is the
\* number of entries of that type (no counter for any other type).
C30_MapperConsistent ==
    /\ \A k \in DOMAIN mapper.value_to_placeholder :
          /\ mapper.value_to_placeholder[k] \in DOMAIN mapper.placeholder_to_value
          /\ k = _create_lookup_key(
                     mapper.placeholder_to_value[mapper.value_to_placeholder[k]])
    /\ \A p \in DOMAIN mapper.placeholder_to_value :
          Cardinality({k \in DOMAIN mapper.value_to_placeholder :
                          mapper.value_to_placeholder[k] = p}) = 1
    /\ DOMAIN mapper.type_counters \subseteq EntityTypes
    /\ \A t \in EntityTypes :
          CounterOf(mapper, t)
              = Cardinality({p \in DOMAIN mapper.placeholder_to_value :
                                mapper.placeholder_to_value[p].entity_type = t})

\* three values of two types are registered, the last one by the last call
C30_Witness ==
    /\ last.op = "get_placeholder"
    /\ ~ last.hit
    /\ Cardinality(DOMAIN mapper.value_to_placeholder) = 3
    /\ CounterOf(mapper, PERSON) = 2
    /\ CounterOf(mapper, EMAIL_ADDRESS) = 1

\* after a reset of a mapper with entries the three tables are empty
C30_WitnessReset ==
    /\ last.op = "reset"
    /\ last.cleared = 2
    /\ mapper.value_to_placeholder = EmptyFn
    /\ mapper.placeholder_to_value = EmptyFn
    /\ mapper.type_counters = EmptyFn

-----------------------------------------------------------------------------
(* Claims about anonymize_text_with_mapping (SpecAnon) *)

WellFormed(t, es) ==
    \A i \in 1..Len(es) : 0 <= es[i].start /\ es[i].start < es[i].end /\ es[i].end <= Len(t)

NonOverlapping(es) ==
    \A i \in 1..Len(es) : \A j \in 1..Len(es) :
        i # j => (es[i].end <= es[j].start \/ es[j].end <= es[i].start)

\* character i (counted from 1) of the text lies in the range of some entity
InSomeSpan(es, i) == \E k \in 1..Len(es) : es[k].start < i /\ i <= es[k].end

RECURSIVE OutsideFrom(_, _, _)
OutsideFrom(t, es, i) ==
    IF i > Len(t) THEN <<>>
    ELSE (IF InSomeSpan(es, i) THEN <<>> ELSE <<t[i]>>) \o OutsideFrom(t, es, i + 1)

\* the characters of t outside every span, in their order
OutsideChars(t, es) == OutsideFrom(t, es, 1)

RECURSIVE StripFrom(_, _, _)
StripFrom(out, i, inside) ==
    IF i > Len(out) THEN <<>>
    ELSE IF inside THEN StripFrom(out, i + 1, out[i] # ">")
    ELSE IF out[i] = "<" THEN StripFrom(out, i + 1, TRUE)
    ELSE <<out[i]>> \o StripFrom(out, i + 1, FALSE)

\* the output without its <...> tokens
StripTokens(out) == StripFrom(out, 1, FALSE)

\* C6: for pairwise non-overlapping spans with 0 <= start < end <= len(text),
\* passed in any order, the characters of the text outside all spans are in the
\* output unchanged and in their order: they are what the output holds between
\* its placeholder tokens.
C6_OffsetSafety ==
    (result.returned /\ WellFormed(text, entities) /\ NonOverlapping(entities))
        => StripTokens(result.text) = OutsideChars(text, entities)

\* two disjoint spans passed leftmost first, with characters outside them
C6_Witness ==
    /\ result.returned
    /\ Len(entities) = 2
    /\ NonOverlapping(entities)
    /\ entities[1].start < entities[2].start
    /\ OutsideChars(text, entities) # <<>>

\* the placeholder the returned mapping holds for the entity's type and text
PlaceholderOf(mappings, entity) ==
    CHOOSE p \in DOMAIN mappings :
        mappings[p].text = entity.text /\ mappings[p].entity_type = entity.entity_type

RECURSIVE InsertByStartAscending(_, _)
InsertByStartAscending(sorted, e) ==
    IF sorted = <<>> THEN <<e>>
    ELSE IF Head(sorted).start <= e.start
         THEN <<Head(sorted)>> \o InsertByStartAscending(Tail(sorted), e)
         ELSE <<e>> \o sorted

RECURSIVE LeftToRight(_)
\* the entities leftmost first
LeftToRight(es) ==
    IF es = <<>> THEN <<>>
    ELSE InsertByStartAscending(LeftToRight(SubSeq(es, 1, Len(es) - 1)), es[Len(es)])

RECURSIVE RebuildFrom(_, _, _, _)
\* the untouched segment up to the next span, its placeholder, and so on
RebuildFrom(t, asc, cursor, mappings) ==
    IF asc = <<>> THEN SliceFrom(t, cursor)
    ELSE Slice(t, cursor, Head(asc).start)
            \o PlaceholderOf(mappings, Head(asc))
            \o RebuildFrom(t, Tail(asc), Head(asc).end, mappings)

Rebuild(t, es, mappings) == RebuildFrom(t, LeftToRight(es), 0, mappings)

EveryEntityMapped(es, mappings) ==
    \A i \in 1..Len(es) :
        \E p \in DOMAIN mappings :
            mappings[p].text = es[i].text /\ mappings[p].entity_type = es[i].entity_type

\* C7 as claimed: for every list of spans the output is the text rebuilt left
\* to right from the untouched segments and one placeholder per span.
C7_RebuiltForEveryList ==
    result.returned =>
        /\ EveryEntityMapped(entities, result.mappings)
        /\ result.text = Rebuild(text, entities, result.mappings)

\* C7: for every list of pairwise non-overlapping spans with
\* 0 <= start < end <= len(text) the range of each span is replaced by the one
\* placeholder of its type and text: the output is the text rebuilt left to
\* right from the untouched segments and one placeholder per span, and the
\* example text gives Hello <PERSON_1>, your email is <EMAIL_ADDRESS_1>.
C7_RebuiltWhenDisjoint ==
    /\ (result.returned /\ WellFormed(text, entities) /\ NonOverlapping(entities)) =>
          /\ EveryEntityMapped(entities, result.mappings)
          /\ result.text = Rebuild(text, entities, result.mappings)
    /\ (result.returned /\ text = ExampleText) => result.text = ExampleOutput

\* the example has been anonymized, and so have two disjoint spans
C7_Witness ==
    /\ result.returned
    /\ text = ExampleText
    /\ entities = ExampleEntities
    /\ result.text = ExampleOutput

RECURSIVE DeanonymizeFrom(_, _, _)
\* every placeholder of the mapping found in out is replaced by its stored text
DeanonymizeFrom(out, i, mappings) ==
    IF i > Len(out) THEN <<>>
    ELSE LET here == {p \in DOMAIN mappings : Slice(out, i - 1, i - 1 + Len(p)) = p}
         IN  IF here # {}
             THEN LET p == CHOOSE q \in here : TRUE
                  IN  mappings[p].text \o DeanonymizeFrom(out, i + Len(p), mappings)
             ELSE <<out[i]>> \o DeanonymizeFrom(out, i + 1, mappings)

Deanonymize(out, mappings) == DeanonymizeFrom(out, 1, mappings)

\* the <...> tokens of the output: from a "<" to the first ">" after it
TokensOf(out) ==
    {SubSeq(out, r[1], r[2]) :
        r \in {q \in (1..Len(out)) \X (1..Len(out)) :
                  /\ q[1] < q[2]
                  /\ out[q[1]] = "<"
                  /\ out[q[2]] = ">"
                  /\ \A k \in (q[1] + 1)..(q[2] - 1) : out[k] # ">"}}

HasNoToken(t) == \A i \in 1..Len(t) : t[i] \notin {"<", ">"}

\* C8: with a fresh mapper, a text without placeholder-like substrings and
\* non-overlapping spans carrying the text of their range, replacing every
\* placeholder of the anonymized text by the text the returned mapping stores
\* for it gives the original text, and every placeholder in the output has an
\* entry in the mapping.
C8_Reversible ==
    (/\ result.returned
     /\ HasNoToken(text)
     /\ WellFormed(text, entities)
     /\ NonOverlapping(entities)
     /\ \A i \in 1..Len(entities) :
           entities[i].text = Slice(text, entities[i].start, entities[i].end))
        => /\ TokensOf(result.text) \subseteq DOMAIN result.mappings
           /\ Deanonymize(result.text, result.mappings) = text

\* one value at two places: one entry restores both
C8_Witness ==
    /\ result.returned
    /\ Len(entities) = 2
    /\ NonOverlapping(entities)
    /\ SameValue(entities[1], entities[2])
    /\ Cardinality(DOMAIN result.mappings) = 1
    /\ Cardinality(TokensOf(result.text)) = 1
    /\ Len(result.text) > Len(text)

\* C23: with an empty span list and a fresh mapper, anonymize_text_with_mapping
\* returns the input text unchanged and an empty mapping, whatever the text.
C23_EmptyListIsIdentity ==
    (pc = "done" /\ entities = <<>>)
        => /\ result.returned
           /\ result.text = text
           /\ result.mappings = EmptyFn
           /\ mapper = PlaceholderMapper

\* the call returned for a text of two characters or more and no span
C23_Witness ==
    /\ pc = "done"
    /\ entities = <<>>
    /\ Len(text) >= 2
    /\ result.text = text

\* characters that are left of a placeholder: what stays of the output, once
\* every whole placeholder is replaced by its stored text, is not the
\* alphabet of the texts
Corrupted(out, mappings) ==
    \E i \in 1..Len(Deanonymize(out, mappings)) :
        Deanonymize(out, mappings)[i] \notin Alphabet

\* C26: anonymize_text_with_mapping neither detects nor rejects overlapping
\* spans: the call returns, and every span of the list, overlapping another or
\* not, has been given a placeholder that the returned mapping holds. (That
\* there are two overlapping spans whose output holds a damaged placeholder is
\* the reachable state C26_Witness.)
C26_OverlapNotRejected ==
    (pc = "done" /\ WellFormed(text, entities) /\ ~ NonOverlapping(entities))
        => /\ result.returned
           /\ EveryEntityMapped(entities, result.mappings)
           /\ Cardinality(DOMAIN result.mappings)
                 = Cardinality({<<entities[i].entity_type, entities[i].text>> :
                                   i \in 1..Len(entities)})

\* two overlapping spans of different values, and an output in which the
\* placeholder put in first was cut by the second splice
C26_Witness ==
    /\ pc = "done"
    /\ HasNoToken(text)
    /\ Len(entities) = 2
    /\ ~ NonOverlapping(entities)
    /\ entities[1].start # entities[2].start
    /\ Cardinality(DOMAIN result.mappings) = 2
    /\ Corrupted(result.text, result.mappings)

\* the start of the rightmost span of es that has the type and text of e
RightmostStart(es, e) ==
    CHOOSE k \in {es[j].start : j \in {j \in 1..Len(es) : SameValue(es[j], e)}} :
        \A j \in 1..Len(es) : SameValue(es[j], e) => es[j].start <= k

\* the number in the placeholder the returned mapping holds for e
NumberOf(mappings, e) ==
    PlaceholderNumber(PlaceholderOf(mappings, e), e.entity_type)

\* C28: in one call on a fresh mapper the numbers follow the order of
\* processing, descending start: of two values of one entity type the one
\* whose rightmost span starts further right has the smaller number, a value
\* whose rightmost span starts right of every span of the other values of its
\* type has number 1, and the score stored for a value is the (rounded) score
\* of its rightmost span, not of an earlier span of the list or of the text.
C28_NumberedRightToLeft ==
    pc = "done" =>
        \A i \in 1..Len(entities) :
            /\ (\A j \in 1..Len(entities) :
                    (j # i /\ SameValue(entities[j], entities[i]))
                        => entities[j].start < entities[i].start)
                  => result.mappings[PlaceholderOf(result.mappings, entities[i])].score
                        = Round4(entities[i].score)
            /\ \A j \in 1..Len(entities) :
                    (/\ entities[j].entity_type = entities[i].entity_type
                     /\ entities[j].text # entities[i].text
                     /\ RightmostStart(entities, entities[j])
                            < RightmostStart(entities, entities[i]))
                        => NumberOf(result.mappings, entities[i])
                              < NumberOf(result.mappings, entities[j])
            /\ (\A j \in 1..Len(entities) :
                    (/\ entities[j].entity_type = entities[i].entity_type
                     /\ entities[j].text # entities[i].text)
                        => entities[j].start < RightmostStart(entities, entities[i]))
                  => NumberOf(result.mappings, entities[i]) = 1

\* one value twice, the leftmost span passed first with another score: the
\* mapping holds the score of the rightmost span
C28_Witness ==
    /\ pc = "done"
    /\ Len(entities) = 2
    /\ SameValue(entities[1], entities[2])
    /\ entities[1].start < entities[2].start
    /\ Round4(entities[1].score) # Round4(entities[2].score)
    /\ \A p \in DOMAIN result.mappings :
          result.mappings[p].score = Round4(entities[2].score)

\* two values of one type, the leftmost passed first: the rightmost has
\* number 1, the leftmost number 2
C28_WitnessNumbers ==
    /\ pc = "done"
    /\ Len(entities) = 2
    /\ entities[1].entity_type = entities[2].entity_type
    /\ entities[1].text # entities[2].text
    /\ entities[1].start < entities[2].start
    /\ NumberOf(result.mappings, entities[2]) = 1
    /\ NumberOf(result.mappings, entities[1]) = 2

-----------------------------------------------------------------------------
(* Claims about the confidence gate (SpecAnalyzer) *)

\* how often x occurs in the list
CountIn(list, x) == Cardinality({i \in 1..Len(list) : list[i] = x})

\* the entities of the last analyze call, one per detector result
DetectedEntities ==
    [i \in 1..Len(unit.detected) |-> ResultToEntity(unit.detected[i], unit.text)]

\* C9: every detected span is in exactly one of accepted and rejected: each
\* span is as often in the two lists together as in the detector's output, no
\* span is in both, nothing else is in them, and no detection gives two empty
\* lists.
C9_PartitionComplete ==
    unit.op = "analyze" =>
        /\ Len(unit.high) + Len(unit.low) = Len(unit.detected)
        /\ \A i \in 1..Len(DetectedEntities) :
              LET x == DetectedEntities[i]
              IN  /\ CountIn(unit.high, x) + CountIn(unit.low, x) = CountIn(DetectedEntities, x)
                  /\ CountIn(unit.high, x) = 0 \/ CountIn(unit.low, x) = 0
        /\ unit.detected = <<>> => (unit.high = <<>> /\ unit.low = <<>>)

\* a span with its score on the threshold and one below it were split
C9_Witness ==
    /\ unit.op = "analyze"
    /\ Len(unit.detected) = 2
    /\ Len(unit.high) = 1
    /\ Len(unit.low) = 1
    /\ unit.high[1].score = MIN_CONFIDENCE_SCORE

\* x is an element of the list
InList(list, x) == \E i \in 1..Len(list) : list[i] = x

AscendingByStart(list) ==
    \A i \in 1..Len(list) : \A j \in 1..Len(list) :
        i < j => list[i].start <= list[j].start

\* the elements of list that start at s, in the order of the list
StartingAt(list, s) == SelectSeq(list, LAMBDA e : e.start = s)

\* the spans starting at s are in list in the order the detector gave them
KeepsDetectorOrder(list, s) ==
    StartingAt(list, s) =
        SelectSeq(DetectedEntities, LAMBDA e : e.start = s /\ InList(list, e))

\* C11: both lists returned by analyze are ordered by ascending start,
\* whatever the order of the detector's results, and in each list the spans
\* of equal start are in the order the detector gave them.
C11_SortedAndStable ==
    unit.op = "analyze" =>
        /\ AscendingByStart(unit.high)
        /\ AscendingByStart(unit.low)
        /\ \A s \in 0..Len(unit.text) :
              /\ KeepsDetectorOrder(unit.high, s)
              /\ KeepsDetectorOrder(unit.low, s)

\* two different accepted spans start at the same place
C11_Witness ==
    /\ unit.op = "analyze"
    /\ Len(unit.high) = 2
    /\ unit.high[1].start = unit.high[2].start
    /\ unit.high[1] # unit.high[2]

-----------------------------------------------------------------------------
(* Claims about anonymize_file_with_selection (SpecSelection) *)

Ids(objects) == {objects[i].id : i \in 1..Len(objects)}

\* the run was completed: not cancelled, nothing raised
Completed == unit.op = "anonymize_file_with_selection" /\ unit.outcome = "ok"

ExcludedEntry(e) ==
    [text |-> e.text, entity_type |-> e.entity_type, score |-> Round4(e.score),
     start |-> e.start, end |-> e.end]

\* the entries of the spans below the threshold and of the accepted spans the
\* callback did not keep
RejectedOrDeselected ==
    [i \in 1..Len(unit.low) |-> ExcludedEntry(unit.low[i])]
        \o [i \in 1..Len(unit.excluded) |-> ExcludedEntry(unit.excluded[i].entity)]

\* C15: after a completed run with selection in which a span was rejected or
\* deselected, the record of excluded entities exists and holds one entry
\* {text, entity_type, score, start, end} for every span below the threshold
\* and for every accepted span the callback did not keep, and no other entry.
C15_ExcludedRecordComplete ==
    (Completed /\ RejectedOrDeselected # <<>>) =>
        /\ fs.excluded.exists
        /\ Len(fs.excluded.content.entities) = Len(RejectedOrDeselected)
        /\ \A i \in 1..Len(RejectedOrDeselected) :
              CountIn(fs.excluded.content.entities, RejectedOrDeselected[i])
                  = CountIn(RejectedOrDeselected, RejectedOrDeselected[i])

\* C25: a call of anonymize_file_with_selection without a selection callback,
\* or with one that returns None, is cancelled unless it raises: it returns
\* None and the three files are after the call what they were before it.
C25_MissingCallbackCancels ==
    [][ (/\ last'.op = "anonymize_file_with_selection"
         /\ last'.callback \in {NoCallback, CancelCallback}
         /\ unit'.outcome # "ValueError") =>
           /\ unit'.outcome = "cancelled"
           /\ fs' = fs ]_vars

-----------------------------------------------------------------------------
(* Claims about a sequence of units on one service (SpecSession) *)

\* the entities the unit substituted
UnitSpans(u) ==
    IF u.op = "anonymize_file_with_selection" THEN EntitiesOf(u.selected) ELSE u.high

\* the entries of the mappings for one entity type
EntriesOfType(mappings, entity_type) ==
    {p \in DOMAIN mappings : mappings[p].entity_type = entity_type}

C21_WitnessLanguage ==
    /\ last.op \in {"anonymize_file", "anonymize_file_with_selection"}
    /\ unit.outcome = "ValueError"
    /\ Lower(input.suffix) \in SUPPORTED_FILE_EXTENSIONS
    /\ service.language \notin SUPPORTED_LANGUAGES
    /\ fs = EmptyFs

\* the document and the mapping file are those of the last completed run
DocumentAndMappingOfLatestRun ==
    (/\ unit.op \in {"anonymize_file", "anonymize_file_with_selection"}
     /\ unit.outcome = "ok") =>
        /\ fs.document = File(unit.anonymized_text)
        /\ fs.mapping.exists
        /\ fs.mapping.content.mappings = unit.mappings

\* the spans the last run handed to the writer of the excluded-entities file
RunExcluded ==
    IF unit.op = "anonymize_file" THEN unit.low ELSE EntitiesOf(unit.excluded)

\* C29: after a completed anonymize_file or anonymize_file_with_selection,
\* whatever units the service ran before it on the same output path, the
\* document and the mapping file are those of this run, and the
\* excluded-entities file holds exactly this run's excluded spans and does not
\* exist when this run excluded none.
C29_ArtifactsOfLatestRun ==
    (/\ unit.op \in {"anonymize_file", "anonymize_file_with_selection"}
     /\ unit.outcome = "ok") =>
        /\ fs.document = File(unit.anonymized_text)
        /\ fs.mapping.exists
        /\ fs.mapping.content.mappings = unit.mappings
        /\ IF RunExcluded = <<>>
           THEN ~ fs.excluded.exists
           ELSE /\ fs.excluded.exists
                /\ fs.excluded.content.entities
                      = [i \in 1..Len(RunExcluded) |-> ExcludedEntry(RunExcluded[i])]

-----------------------------------------------------------------------------
(* Claims about two runs on the same arguments (SpecRerun) *)

-----------------------------------------------------------------------------
(* Claims about spans of any shape (SpecMalformed) *)

\* start >= end, or start or end outside 0..len(t)
Malformed(t, e) ==
    \/ e.start >= e.end
    \/ e.start < 0 \/ e.start > Len(t)
    \/ e.end < 0 \/ e.end > Len(t)

\* C22: a call of anonymize_text_with_mapping whose span list holds a
\* malformed span (start >= end, or an index outside 0..len(text)) returns no
\* rewritten text and leaves the mapper without any entry.
C22_MalformedSpanAborts ==
    (pc = "done" /\ \E i \in 1..Len(entities) : Malformed(text, entities[i]))
        => /\ ~ result.returned
           /\ mapper = PlaceholderMapper

-----------------------------------------------------------------------------
(* Claims about the output path (SpecPaths) *)

-----------------------------------------------------------------------------
(* Claims about concurrent callers (SpecConcurrent) *)

\* C18: when callers run detection on one analyzer at the same time, before
\* it has an engine, one engine is created under every interleaving and every
\* caller is handed that same engine.
C18_OneInitialization ==
    /\ session.engines <= 1
    /\ \A c \in Callers : \A d \in Callers :
          (pc[c] = "done" /\ pc[d] = "done") =>
              (last[c].engine # None /\ last[c].engine = last[d].engine)

-----------------------------------------------------------------------------
(* Claims about what get_mappings returns (SpecSnapshot) *)

\* C19: no change a caller makes to the value get_mappings returned (a key
\* set or deleted, a text, entity_type or score written into an entry) changes
\* what a later get_mappings returns, and no later get_placeholder or reset
\* changes what the caller reads in the value it holds.
C19_SnapshotNotExposed ==
    /\ [][ last'.op = "write" => get_mappings(mapper') = get_mappings(mapper) ]_vars
    /\ [][ (result.returned /\ last'.op \in {"get_placeholder", "reset"}) =>
              Read(result'.mappings, mapper') = Read(result.mappings, mapper) ]_vars

-----------------------------------------------------------------------------
(* Claims about the service (SpecService) *)

\* C10: for a service created with min_confidence = t the accepted spans are
\* exactly the detected spans with score >= t, the rejected ones exactly those
\* with score < t, and t is the min_confidence_score of the records written.
C10_ConfiguredThresholdSeparates ==
    (unit.op \in {"anonymize_text", "anonymize_file"} /\ unit.outcome = "ok") =>
        /\ \A i \in 1..Len(DetectedEntities) :
              LET x == DetectedEntities[i]
              IN  /\ (x.score >= service.min_confidence) <=> CountIn(unit.high, x) > 0
                  /\ (x.score < service.min_confidence) <=> CountIn(unit.low, x) > 0
        /\ unit.op = "anonymize_file" =>
              /\ fs.mapping.exists
              /\ fs.mapping.content.min_confidence_score = service.min_confidence
              /\ unit.low # <<>> =>
                    /\ fs.excluded.exists
                    /\ fs.excluded.content.min_confidence_score = service.min_confidence

====
